---- MODULE Spec2Model ----
(***************************************************************************)
(* Model of the table builders of plugin-visual-component-use:             *)
(*   Functions/uri_to_url.py            uri_to_url                         *)
(*   Functions/most_used_bar.py         most_used_bar                      *)
(*   Functions/most_used_by_type_bar.py most_used_by_type_bar              *)
(*   Functions/sankey.py                sankey                             *)
(*   app.py                             the routes and their handlers      *)
(* Python strings are TLA+ strings (Len, SubSeq and \o work on them), a    *)
(* pandas DataFrame is a sequence of records (one record per row, in row   *)
(* order), NaN is the value Null, and a raised exception is status =       *)
(* "fault" with no table returned.                                         *)
(***************************************************************************)
EXTENDS Integers, Sequences, FiniteSets, TLC

VARIABLES
    phase,      \* "bar_input" / "sankey_input": the result of a most-used query /
                \* of the preceding-percent query is being received;
                \* "done": a builder has run on it
    poi,        \* the part of interest: [uri, display_id, title, role, count]
    instance,   \* the SynBioHub instance the query is run on
    raw,        \* the bindings of the SPARQL result, one record per binding
    op,         \* the builder that ran ("none" before)
    status,     \* "none", "ok" (a table was returned) or "fault" (an exception)
    bar_df,     \* the table returned by most_used_bar / most_used_by_type_bar
    order_df,   \* sankey's order_df once its urls and titles are filled in
    part_array, \* sankey's part_array: [prom, rbs, cds, term, other]
    skey,       \* the table returned by sankey, as its seven columns
    arg,        \* the value uri_to_url is called with: [data_type, value]
    spoofed,    \* the spoofed_instance uri_to_url is called with
    ret,        \* what uri_to_url returned for arg
    ret2,       \* what uri_to_url returned when called again with ret
    request,    \* the HTTP request: [method, path, body] and what its run meets
    response,   \* the HTTP response: [code, by, kind]
    multiplier, \* the count of a co-occurrence row
    percent,    \* the centfol of a co-occurrence row, in hundredths as received
    widths      \* the two link widths of the row, as binary64 numbers

\* the values of a run of a table builder
builderVars == <<poi, raw, op, status, bar_df, order_df, part_array, skey>>

\* the values of a call of uri_to_url
uriVars == <<arg, spoofed, ret, ret2>>

\* the values of the HTTP boundary
httpVars == <<request, response>>

\* the values of the width computation
widthVars == <<multiplier, percent, widths>>

vars == <<phase, instance, builderVars, uriVars, httpVars, widthVars>>

----------------------------------------------------------------------------
(* Bounds of the model.                                                    *)

\* rows of the query result that are chosen freely
MaxFree == 2
\* longest candidate table (free rows, then generated rows with fresh ids)
MaxPool == 12

----------------------------------------------------------------------------
(* Python and pandas primitives.                                           *)

Null == "NaN"

\* no table builder runs
NoBuilder ==
    /\ poi = Null
    /\ raw = <<>>
    /\ op = "none"
    /\ status = "none"
    /\ bar_df = <<>>
    /\ order_df = <<>>
    /\ part_array = <<>>
    /\ skey = <<>>

\* uri_to_url is not called on its own
NoUriCall == arg = Null /\ spoofed = Null /\ ret = Null /\ ret2 = Null

\* no HTTP request is looked at
NoRequest == request = Null /\ response = Null

\* no width is computed on its own
NoWidths == multiplier = Null /\ percent = Null /\ widths = Null

Min(a, b) == IF a < b THEN a ELSE b

Max(a, b) == IF a > b THEN a ELSE b

\* s.find(sub, i): the lowest 0-based index >= i where sub starts, else -1
RECURSIVE PyFind(_, _, _)
PyFind(s, sub, i) ==
    IF i + Len(sub) > Len(s) THEN -1
    ELSE IF SubSeq(s, i + 1, i + Len(sub)) = sub THEN i
    ELSE PyFind(s, sub, i + 1)

\* s[:n] for n >= 0
PySliceTo(s, n) == SubSeq(s, 1, Min(n, Len(s)))

\* s[n:] for n >= 0
PySliceFrom(s, n) == SubSeq(s, n + 1, Len(s))

\* "".join(new + c for c in s) + new, what s.replace("", new) returns
RECURSIVE PyInterleave(_, _)
PyInterleave(s, new) ==
    IF s = "" THEN new
    ELSE new \o SubSeq(s, 1, 1) \o PyInterleave(PySliceFrom(s, 1), new)

\* s.replace(old, new): every non-overlapping occurrence, left to right
RECURSIVE PyReplace(_, _, _)
PyReplace(s, old, new) ==
    IF old = "" THEN PyInterleave(s, new)
    ELSE LET i == PyFind(s, old, 0) IN
         IF i = -1 THEN s
         ELSE PySliceTo(s, i) \o new
              \o PyReplace(PySliceFrom(s, i + Len(old)), old, new)

\* df.iloc[0:n] for n >= 0
ILocTo(df, n) == SubSeq(df, 1, Min(n, Len(df)))

----------------------------------------------------------------------------
(* Functions/uri_to_url.py                                                 *)

\* uri[:uri.find('/', 8) + 1]
InstanceOf(uri) == PySliceTo(uri, PyFind(uri, "/", 8) + 1)

\* mutant: the instance of the value is replaced whatever it is
UriToUrlStrAnyInstance(data, inst, spoofed_instance) ==
    inst \o PySliceFrom(data, Len(InstanceOf(data)))

\* the str branch of uri_to_url
UriToUrlStr(data, inst, spoofed_instance) ==
    IF spoofed_instance # inst
    THEN LET uri_instance == InstanceOf(data) IN
         IF uri_instance = spoofed_instance
         THEN PyReplace(data, uri_instance, inst)
         ELSE data
    ELSE data

\* mutant: every cell is rewritten
UriToUrlSeriesAll(data, inst, spoofed_instance) ==
    [idx \in 1..Len(data) |-> PyReplace(data[idx], InstanceOf(data[idx]), inst)]

\* the Series branch of uri_to_url: every cell in place
UriToUrlSeries(data, inst, spoofed_instance) ==
    IF spoofed_instance # inst
    THEN [idx \in 1..Len(data) |->
            LET deff == data[idx]
                uri_instance == InstanceOf(deff)
            IN IF uri_instance = spoofed_instance
               THEN PyReplace(deff, uri_instance, inst)
               ELSE deff]
    ELSE data

\* uri_to_url on a value held with its type: a Series, a str, or anything
\* else, which is returned as it is
uri_to_url(data, inst, spoofed_instance) ==
    IF data.data_type = "Series"
    THEN [data EXCEPT !.value = UriToUrlSeries(data.value, inst, spoofed_instance)]
    ELSE IF data.data_type = "str"
    THEN [data EXCEPT !.value = UriToUrlStr(data.value, inst, spoofed_instance)]
    ELSE data

\* df['deff'] = uri_to_url(df['deff'], instance, spoofed_instance)
ResolveDeff(df, inst, spoofed_instance) ==
    LET col == UriToUrlSeries([i \in 1..Len(df) |-> df[i].deff],
                              inst, spoofed_instance)
    IN [i \in 1..Len(df) |-> [df[i] EXCEPT !.deff = col[i]]]

----------------------------------------------------------------------------
(* Functions/most_used_bar.py and Functions/most_used_by_type_bar.py       *)

\* the most candidates shown next to the poi
TopN == 10

SOPrefix == "http://identifiers.org/so/SO:"

\* f"http://identifiers.org/so/SO:{str(role)}"
RoleTog(role) == SOPrefix \o role

\* "http://identifiers.org/so/SO:0000167".replace("0000167", role)
PartRole(role) == PyReplace("http://identifiers.org/so/SO:0000167", "0000167", role)

ColormapKeys ==
    { "http://identifiers.org/so/SO:0000167",
      "http://identifiers.org/so/SO:0000139",
      "http://identifiers.org/so/SO:0000316",
      "http://identifiers.org/so/SO:0000141" }

colormap ==
    [ r \in ColormapKeys |->
        CASE r = "http://identifiers.org/so/SO:0000167" -> "rgba(4,187,61,1)"
          [] r = "http://identifiers.org/so/SO:0000139" -> "rgba(149,110,219,1)"
          [] r = "http://identifiers.org/so/SO:0000316" -> "rgba(119,157,205,1)"
          [] r = "http://identifiers.org/so/SO:0000141" -> "rgba(202,58,32,1)" ]

\* try: colormap[roletog]  except KeyError: the orange of the other roles
ColourOf(roletog) ==
    IF roletog \in ColormapKeys THEN colormap[roletog] ELSE "rgba(255, 128,0,1)"

\* json_normalize names a column only when some binding has the variable, and
\* df.drop raises KeyError for a column that is missing: title is the one
\* variable a binding may lack (the other variables are bound in every row)
HasColumns(bindings) ==
    /\ bindings # <<>>
    /\ \E i \in 1..Len(bindings) : bindings[i].title # Null

\* mutant: the poi is left in the candidate table
DropPoiKeepsAll(df, display_id) == df

\* bar_df[bar_df.displayId != display_id], then reset_index
DropPoi(df, display_id) ==
    LET Keep(row) == row.displayId # display_id IN SelectSeq(df, Keep)

\* mutant: the cap of ten candidates is forgotten
RobustnessUncapped(df) == Len(df) - 1

\* min(10, len(bar_df) - 1)
Robustness(df) == Min(TopN, Len(df) - 1)

\* mutant: the rows are taken from the end of the table
TopRowsFromEnd(df, robustness) == SubSeq(df, Len(df) - robustness, Len(df))

\* bar_df.iloc[0:robustness + 1]
TopRows(df, robustness) == ILocTo(df, robustness + 1)

\* the row built from poi_row
PoiRow(p, part_url) ==
    [ count |-> p.count, deff |-> part_url, displayId |-> p.display_id,
      roletog |-> RoleTog(p.role), title |-> p.title ]

\* mutant: the poi row is not written into the table
SetRowNowhere(df, robustness, row) == df

\* bar_df.iloc[robustness] = poi_row.iloc[0]; defined for a row that exists
SetRow(df, robustness, row) == [df EXCEPT ![robustness + 1] = row]

\* mutant: missing titles are left missing
BackfillTitleNone(df) == df

\* bar_df.title[bar_df.title.isnull()] = bar_df.displayId[bar_df.title.isnull()]
BackfillTitle(df) ==
    [ i \in 1..Len(df) |->
        IF df[i].title = Null THEN [df[i] EXCEPT !.title = df[i].displayId]
        ELSE df[i] ]

\* mutant: every row gets the colour of the last row's role
ColoursByRowOfPoi(df) ==
    [ index \in 1..Len(df) |-> ColourOf(df[Len(df)].roletog) ]

\* the colour list of most_used_bar: one colour per row, from the row's role
ColoursByRow(df) == [ index \in 1..Len(df) |-> ColourOf(df[index].roletog) ]

\* mutant: every row gets the colour of its own role
ColoursByTypeOwn(df, role) ==
    [ index \in 1..Len(df) |-> ColourOf(df[index].roletog) ]

\* the colour list of most_used_by_type_bar: the poi's colour, len(bar_df) times
ColoursByType(df, role) == [ index \in 1..Len(df) |-> ColourOf(PartRole(role)) ]

\* bar_df['color'] = pd.Series(colours, index=bar_df.index)
WithColour(df, colours) ==
    [ i \in 1..Len(df) |->
        [ count |-> df[i].count, deff |-> df[i].deff,
          displayId |-> df[i].displayId, roletog |-> df[i].roletog,
          title |-> df[i].title, color |-> colours[i] ] ]

\* lines 111-135 of most_used_bar.py (116-140 of most_used_by_type_bar.py):
\* the rows up to the poi row; writing row -1 of an empty table raises
RankedFaults(bindings, p) ==
    \/ ~HasColumns(bindings)
    \/ DropPoi(bindings, p.display_id) = <<>>

RankedRows(bindings, p, inst) ==
    LET spoofed_instance == InstanceOf(p.uri)
        part_url   == UriToUrlStr(p.uri, inst, spoofed_instance)
        dropped    == DropPoi(bindings, p.display_id)
        robustness == Robustness(dropped)
        top        == TopRows(dropped, robustness)
        resolved   == ResolveDeff(top, inst, spoofed_instance)
    IN SetRow(resolved, robustness, PoiRow(p, part_url))

most_used_bar(bindings, p, inst) ==
    LET rows == RankedRows(bindings, p, inst)
    IN BackfillTitle(WithColour(rows, ColoursByRow(rows)))

most_used_by_type_bar(bindings, p, inst) ==
    LET rows == RankedRows(bindings, p, inst)
    IN BackfillTitle(WithColour(rows, ColoursByType(rows, p.role)))

----------------------------------------------------------------------------
(* The inputs: parts of interest, instances and query results.             *)

Instances == { "https://synbiohub.org/", "https://dev.synbiohub.org/" }

\* what input_data returns: the title is the displayId when the part has none
Pois ==
    { [ uri |-> "https://synbiohub.org/public/igem/BBa_E0040/1",
        display_id |-> "BBa_E0040", title |-> "GFP",
        role |-> "0000316", count |-> 2348 ],
      [ uri |-> "https://synbiohub.org/public/igem/BBa_R0040/1",
        display_id |-> "BBa_R0040", title |-> "p(tetR)",
        role |-> "0000167", count |-> 2686 ],
      [ uri |-> "https://synbiohub.org/public/igem/BBa_J176041/1",
        display_id |-> "BBa_J176041", title |-> "BBa_J176041",
        role |-> "0000110", count |-> 2550 ] }

BarRow(count, deff, displayId, role, title) ==
    [ count |-> count, deff |-> deff, displayId |-> displayId,
      roletog |-> SOPrefix \o role, title |-> title ]

\* bindings the most-used queries can hold: the rows of the docstring examples
\* (a row without title is one the example shows with its displayId as title),
\* and BBa_B0034 a second time, under a second role of the part
CandidateRows ==
    { BarRow(12824, "https://synbiohub.org/public/igem/BBa_B0034/1",
             "BBa_B0034", "0000139", Null),
      BarRow(12824, "https://synbiohub.org/public/igem/BBa_B0034/1",
             "BBa_B0034", "0000552", Null),
      BarRow(9052, "https://synbiohub.org/public/igem/BBa_B0012/1",
             "BBa_B0012", "0000141", Null),
      BarRow(2686, "https://synbiohub.org/public/igem/BBa_R0040/1",
             "BBa_R0040", "0000167", "p(tetR)"),
      BarRow(2550, "https://synbiohub.org/public/igem/BBa_J176041/1",
             "BBa_J176041", "0000110", "scar"),
      BarRow(2348, "https://synbiohub.org/public/igem/BBa_E0040/1",
             "BBa_E0040", "0000316", "GFP"),
      BarRow(948, "https://shouldnt_change.org/public/igem/BBa_E1010/1",
             "BBa_E1010", "0000316", "mRFP1") }

FillerRoles == << "0000316", "0000167", "0000110" >>

\* the i-th row of a long result: a part of its own, every second one untitled
FillerRow(i) ==
    BarRow(1000 - i,
           "https://synbiohub.org/public/igem/BBa_K" \o ToString(i) \o "/1",
           "BBa_K" \o ToString(i),
           FillerRoles[(i % 3) + 1],
           IF i % 2 = 0 THEN Null ELSE "part " \o ToString(i))

----------------------------------------------------------------------------
(* Specification of the ranked tables: a query result arrives row by row,  *)
(* then one of the two builders runs on it.                                *)

InitBar ==
    /\ phase = "bar_input"
    /\ poi \in Pois
    /\ instance \in Instances
    /\ raw = <<>>
    /\ op = "none"
    /\ status = "none"
    /\ bar_df = <<>>
    /\ order_df = <<>>
    /\ part_array = <<>>
    /\ skey = <<>>
    /\ NoUriCall
    /\ NoRequest
    /\ NoWidths

\* a solution of the query is returned once
Received(row) == \E i \in 1..Len(raw) : raw[i] = row

ReceiveRow(row) ==
    /\ phase = "bar_input"
    /\ Len(raw) < MaxFree
    /\ ~Received(row)
    /\ raw' = Append(raw, row)
    /\ UNCHANGED <<phase, poi, instance, op, status, bar_df, order_df, part_array, skey>>
    /\ UNCHANGED <<uriVars, httpVars, widthVars>>

ReceiveFiller ==
    /\ phase = "bar_input"
    /\ Len(raw) >= MaxFree
    /\ Len(raw) < MaxPool
    /\ raw' = Append(raw, FillerRow(Len(raw) + 1))
    /\ UNCHANGED <<phase, poi, instance, op, status, bar_df, order_df, part_array, skey>>
    /\ UNCHANGED <<uriVars, httpVars, widthVars>>

MostUsedBar ==
    /\ phase = "bar_input"
    /\ phase' = "done"
    /\ op' = "most_used_bar"
    /\ IF RankedFaults(raw, poi)
       THEN status' = "fault" /\ bar_df' = <<>>
       ELSE status' = "ok" /\ bar_df' = most_used_bar(raw, poi, instance)
    /\ UNCHANGED <<poi, instance, raw, order_df, part_array, skey>>
    /\ UNCHANGED <<uriVars, httpVars, widthVars>>

MostUsedByTypeBar ==
    /\ phase = "bar_input"
    /\ phase' = "done"
    /\ op' = "most_used_by_type_bar"
    /\ IF RankedFaults(raw, poi)
       THEN status' = "fault" /\ bar_df' = <<>>
       ELSE status' = "ok" /\ bar_df' = most_used_by_type_bar(raw, poi, instance)
    /\ UNCHANGED <<poi, instance, raw, order_df, part_array, skey>>
    /\ UNCHANGED <<uriVars, httpVars, widthVars>>

NextBar ==
    \/ \E row \in CandidateRows : ReceiveRow(row)
    \/ ReceiveFiller
    \/ MostUsedBar
    \/ MostUsedByTypeBar

SpecBar == InitBar /\ [][NextBar]_vars

----------------------------------------------------------------------------
(* Functions/sankey.py                                                     *)

\* the most parts of one type that get a node
MaxPerType == 10

\* mutant: a negative end of the slice is taken for the end of the list
PyListSliceToEnd(lst, a, b) ==
    SubSeq(lst, a + 1, IF b < 0 THEN Len(lst) ELSE Min(b, Len(lst)))

\* lst[a:b] of a Python list, for a >= 0 and any b (a negative b counts from the end)
PyListSlice(lst, a, b) ==
    LET stop == IF b < 0 THEN Max(Len(lst) + b, 0) ELSE Min(b, Len(lst))
    IN SubSeq(lst, a + 1, stop)

\* mutant: the repetition counts up from x
RepeatCounting(x, n) == [ i \in 1..n |-> x + i ]

\* mutant: the repetition is one short
RepeatOneLess(x, n) == [ i \in 1..Max(n - 1, 0) |-> x ]

\* [x] * n
Repeat(x, n) == [ i \in 1..n |-> x ]

\* mutant: the range starts one late and ends one late
PyRangeShifted(a, b) == [ i \in 1..Max(b - a, 0) |-> a + i ]

\* list(range(a, b))
PyRange(a, b) == [ i \in 1..Max(b - a, 0) |-> a + i - 1 ]

link_colours ==
    << "rgba(4,187,61,0.5)", "rgba(149,110,219,0.5)", "rgba(119,157,205,0.5)",
       "rgba(202,58,32,0.5)", "rgba(255, 128,0,0.5)" >>

node_colours == << "#04BB3D", "#956EDB", "#779DCC", "#CA3A20", "#FF8000" >>

part_colour == "#000000"

\* order_df.loc[order_df['roletog'] == role]
OfRole(df, role) ==
    LET Keep(row) == row.roletog = role IN SelectSeq(df, Keep)

\* mutant: only the promoters are removed from the other parts
OtherRolesButProm(df) ==
    LET Keep(row) == row.roletog # "http://identifiers.org/so/SO:0000167"
    IN SelectSeq(df, Keep)

\* order_df with the rows of the four basic roles removed, one role at a time
OtherRoles(df) ==
    LET Keep(row) ==
            /\ row.roletog # "http://identifiers.org/so/SO:0000167"
            /\ row.roletog # "http://identifiers.org/so/SO:0000139"
            /\ row.roletog # "http://identifiers.org/so/SO:0000316"
            /\ row.roletog # "http://identifiers.org/so/SO:0000141"
    IN SelectSeq(df, Keep)

\* part_array = [prom, rbs, cds, term, other]
PartArray(df) ==
    << OfRole(df, "http://identifiers.org/so/SO:0000167"),
       OfRole(df, "http://identifiers.org/so/SO:0000139"),
       OfRole(df, "http://identifiers.org/so/SO:0000316"),
       OfRole(df, "http://identifiers.org/so/SO:0000141"),
       OtherRoles(df) >>

\* mutant: the cap of ten parts per type is forgotten
LenPartTypeUncapped(part) == Len(part)

\* len_part_type[part_type_index] = min(part_array_lengths[part_type_index], 10)
LenPartType(part) == Min(Len(part), MaxPerType)

\* mutant: the loop visits every row of the type
VisitedAll(part) == part

\* the rows the loop over range(0, len_part_type[part_type_index]) visits
Visited(part) == ILocTo(part, LenPartType(part))

\* the rows visited by the two nested loops, in the order they are visited,
\* each with its part_type_index
RECURSIVE LoopRows(_, _)
LoopRows(parts, part_type_index) ==
    IF part_type_index >= Len(parts) THEN <<>>
    ELSE LET part == Visited(parts[part_type_index + 1])
         IN [ i \in 1..Len(part) |->
                [ row |-> part[i], part_type_index |-> part_type_index ] ]
            \o LoopRows(parts, part_type_index + 1)

\* mutant: the share of the poi following is used for the preceding width
WidthPrecedingOfFollowing(row) == row.count * row.centfol

\* count * (1 - centfol); centfol is held in hundredths, and so is the width
WidthPreceding(row) == row.count * (100 - row.centfol)

\* mutant: the share of the poi preceding is used for the following width
WidthFollowingOfPreceding(row) == (100 - row.centfol) * row.count

\* p * m of zip(percent, multiplier), in hundredths
WidthFollowing(row) == row.centfol * row.count

\* pd.DataFrame(data=[...], index=[...]).T: one row per position of the longest
\* list, a list that is shorter leaves None
Cell(lst, i) == IF i <= Len(lst) THEN lst[i] ELSE Null

\* mutant: the table gets one row per link only
MakeDataFrameLinksOnly(source, list_target, value, list_node_colour, node_label, node_url, list_link_colour) ==
    [ i \in 1..Len(source) |->
        [ Source |-> Cell(source, i), Target |-> Cell(list_target, i),
          Value |-> Cell(value, i), Color |-> Cell(list_node_colour, i),
          NodeLabel |-> Cell(node_label, i), Link |-> Cell(node_url, i),
          LinkColor |-> Cell(list_link_colour, i) ] ]

MakeDataFrame(source, list_target, value, list_node_colour, node_label, node_url, list_link_colour) ==
    LET n == Max(Len(source), Len(node_label))
    IN [ i \in 1..n |->
           [ Source |-> Cell(source, i), Target |-> Cell(list_target, i),
             Value |-> Cell(value, i), Color |-> Cell(list_node_colour, i),
             NodeLabel |-> Cell(node_label, i), Link |-> Cell(node_url, i),
             LinkColor |-> Cell(list_link_colour, i) ] ]

\* lines 76-94: the renamed table exists only when every column was returned
SankeyFaults(bindings) == ~HasColumns(bindings)

\* lines 108-120: order_df with its urls resolved and its titles filled in
OrderDf(uri, inst, bindings) ==
    BackfillTitle(ResolveDeff(bindings, inst, InstanceOf(uri)))

sankey(url, uri, title, inst, bindings) ==
    LET loop == LoopRows(PartArray(OrderDf(uri, inst, bindings)), 0)
        \* "part type to preceding parts"
        num_colocated_parts == Len(loop)
        target == 5 + num_colocated_parts
        lc1 == [ i \in 1..Len(loop) |-> link_colours[loop[i].part_type_index + 1] ]
        nc1 == node_colours
               \o [ i \in 1..Len(loop) |-> node_colours[loop[i].part_type_index + 1] ]
        nl1 == << "Preceeding Promoters", "Preceeding RBS", "Preceeding CDS",
                  "Preceeding Terminator", "Preceeding Other" >>
               \o [ i \in 1..Len(loop) |-> loop[i].row.title ]
        nu1 == << "NA", "NA", "NA", "NA", "NA" >>
               \o [ i \in 1..Len(loop) |-> loop[i].row.deff ]
        v1  == [ i \in 1..Len(loop) |-> WidthPreceding(loop[i].row) ]
        zipped == [ i \in 1..Len(loop) |-> WidthFollowing(loop[i].row) ]
        s1  == [ i \in 1..Len(loop) |-> loop[i].part_type_index ]
        t1  == [ i \in 1..Len(loop) |-> 5 + i - 1 ]
        \* "Preceding parts to POI"
        lc2 == lc1 \o lc1
        v2  == v1 \o v1
        s2  == s1 \o t1
        t2  == t1 \o Repeat(target, num_colocated_parts)
        \* "Add POI node"
        nl2 == Append(nl1, title)
        nu2 == Append(nu1, url)
        nc2 == Append(nc1, part_colour)
        \* "POI to following"
        s3  == s2 \o Repeat(target, num_colocated_parts)
        t3  == t2 \o PyRange(target + 1, target + num_colocated_parts + 1)
        lc3 == lc2 \o PyListSlice(lc2, 0, num_colocated_parts)
        v3  == v2 \o zipped
        nl3 == nl2 \o PyListSlice(nl2, 5, -1)
        nc3 == nc2 \o PyListSlice(nc2, 5, -1)
        nu3 == nu2 \o PyListSlice(nu2, 5, -1)
        \* "Following to Following labels"
        s4  == s3 \o PyRange(target + 1, target + num_colocated_parts + 1)
        head4 == PyListSlice(s4, 0, num_colocated_parts)
        t4  == t3 \o [ i \in 1..Len(head4) |->
                         head4[i] + target + num_colocated_parts + 1 ]
        lc4 == lc3 \o PyListSlice(lc3, 0, num_colocated_parts)
        v4  == v3 \o zipped
        nl4 == nl3 \o << "Following Promoters", "Following RBS", "Following CDS",
                         "Following Terminator", "Following Other" >>
        nc4 == nc3 \o << "#04BB3D", "#956EDB", "#779DCC", "#CA3A20", "#FF8000" >>
        nu4 == nu3 \o << "NA", "NA", "NA", "NA", "NA" >>
    IN MakeDataFrame(s4, t4, v4, nc4, nl4, nu4, lc4)

----------------------------------------------------------------------------
(* The inputs of sankey: results of the preceding-percent query.           *)

\* rows of the query result that are chosen freely
MaxFreeOrder == 4
\* longest co-occurrence table (free rows, then rows of the last row's role)
MaxOrder == 14

OrderRow(centfol, count, deff, displayId, role, title) ==
    [ centfol |-> centfol, count |-> count, deff |-> deff,
      displayId |-> displayId, roletog |-> SOPrefix \o role, title |-> title ]

\* parts of every type, with and without title; centfol in hundredths
OrderRows ==
    { OrderRow(25, 40, "https://synbiohub.org/public/igem/BBa_R0040/1",
               "BBa_R0040", "0000167", "p(tetR)"),
      OrderRow(50, 30, "https://synbiohub.org/public/igem/BBa_R0010/1",
               "BBa_R0010", "0000167", Null),
      OrderRow(50, 12, "https://synbiohub.org/public/igem/BBa_B0034/1",
               "BBa_B0034", "0000139", Null),
      OrderRow(0, 8, "https://shouldnt_change.org/public/igem/BBa_E1010/1",
               "BBa_E1010", "0000316", "mRFP1"),
      OrderRow(100, 20, "https://synbiohub.org/public/igem/BBa_B0012/1",
               "BBa_B0012", "0000141", Null),
      OrderRow(75, 4, "https://synbiohub.org/public/igem/BBa_J176041/1",
               "BBa_J176041", "0000110", "scar") }

\* the i-th row of a long result: a part of its own with the role of the row
\* before it, every second one untitled
OrderFiller(i, roletog) ==
    [ centfol |-> (i % 5) * 25, count |-> 100 + i,
      deff |-> "https://synbiohub.org/public/igem/BBa_K" \o ToString(i) \o "/1",
      displayId |-> "BBa_K" \o ToString(i), roletog |-> roletog,
      title |-> IF i % 2 = 0 THEN Null ELSE "part " \o ToString(i) ]

SankeyPoi ==
    [ uri |-> "https://synbiohub.org/public/igem/BBa_E0040/1",
      display_id |-> "BBa_E0040", title |-> "GFP",
      role |-> "0000316", count |-> 2348 ]

\* complete_sbol of the request body: the SBOL download of the part's page
CompleteSbol(p, inst) == inst \o PySliceFrom(p.uri, Len(InstanceOf(p.uri))) \o "/sbol"

\* url = complete_sbol.replace('/sbol', '')
RequestUrl(complete_sbol) == PyReplace(complete_sbol, "/sbol", "")

InitSankey ==
    /\ phase = "sankey_input"
    /\ poi = SankeyPoi
    /\ instance \in Instances
    /\ raw = <<>>
    /\ op = "none"
    /\ status = "none"
    /\ bar_df = <<>>
    /\ order_df = <<>>
    /\ part_array = <<>>
    /\ skey = <<>>
    /\ NoUriCall
    /\ NoRequest
    /\ NoWidths

ReceiveOrderRow(row) ==
    /\ phase = "sankey_input"
    /\ Len(raw) < MaxFreeOrder
    /\ ~Received(row)
    /\ raw' = Append(raw, row)
    /\ UNCHANGED <<phase, poi, instance, op, status, bar_df, order_df, part_array, skey>>
    /\ UNCHANGED <<uriVars, httpVars, widthVars>>

ReceiveOrderFiller ==
    /\ phase = "sankey_input"
    /\ Len(raw) >= MaxFreeOrder
    /\ Len(raw) < MaxOrder
    /\ raw' = Append(raw, OrderFiller(Len(raw) + 1, raw[Len(raw)].roletog))
    /\ UNCHANGED <<phase, poi, instance, op, status, bar_df, order_df, part_array, skey>>
    /\ UNCHANGED <<uriVars, httpVars, widthVars>>

Sankey ==
    /\ phase = "sankey_input"
    /\ phase' = "done"
    /\ op' = "sankey"
    /\ IF SankeyFaults(raw)
       THEN status' = "fault" /\ order_df' = <<>> /\ part_array' = <<>> /\ skey' = <<>>
       ELSE /\ status' = "ok"
            /\ order_df' = OrderDf(poi.uri, instance, raw)
            /\ part_array' = PartArray(OrderDf(poi.uri, instance, raw))
            /\ skey' = sankey(RequestUrl(CompleteSbol(poi, instance)),
                              poi.uri, poi.title, instance, raw)
    /\ UNCHANGED <<poi, instance, raw, bar_df>>
    /\ UNCHANGED <<uriVars, httpVars, widthVars>>

NextSankey ==
    \/ \E row \in OrderRows : ReceiveOrderRow(row)
    \/ ReceiveOrderFiller
    \/ Sankey

SpecSankey == InitSankey /\ [][NextSankey]_vars

----------------------------------------------------------------------------
(* The three builders together.                                            *)

Init == InitBar \/ InitSankey

Next == NextBar \/ NextSankey

Spec == Init /\ [][Next]_vars

----------------------------------------------------------------------------
(* app.py: the routes of the Flask application and their view functions.   *)
(* A request is held with what its run would meet outside the process: the *)
(* answer of the instance to input_data, the bindings of the sankey query  *)
(* and of the bar queries, and whether plotly writes the file.             *)

\* a key the JSON object of the body does not have
Missing == "<missing>"

\* app.route(...): the rules in the order they are added, each with the
\* methods it takes and the name of the function it decorates
url_map ==
    << [ rule |-> "/sankey/status", methods |-> {"GET"}, endpoint |-> "Sankey_Status" ],
       [ rule |-> "/sankey/evaluate", methods |-> {"POST"}, endpoint |-> "Sankey_Evaluate" ],
       [ rule |-> "/bar/run", methods |-> {"POST"}, endpoint |-> "Sankey_Run" ],
       [ rule |-> "/bar/status", methods |-> {"GET"}, endpoint |-> "Bar_Status" ],
       [ rule |-> "/bar/evaluate", methods |-> {"POST"}, endpoint |-> "Bar_Evaluate" ],
       [ rule |-> "/bar/run", methods |-> {"POST"}, endpoint |-> "Bar_Run" ] >>

\* the rules whose path is the path of the request
MatchingRules(req) == { i \in 1..Len(url_map) : url_map[i].rule = req.path }

\* of these, the rules that take the method of the request
AllowedRules(req) == { i \in MatchingRules(req) : req.method \in url_map[i].methods }

\* rules of the same path are tried in the order they were added
FirstRule(rules) == CHOOSE i \in rules : \A j \in rules : i <= j

\* request.get_json(force=True) raises BadRequest on a body that is not JSON
BadRequest == [ code |-> 400, body |-> "Bad Request" ]

\* an exception that leaves a view function
InternalServerError == [ code |-> 500, body |-> "Internal Server Error" ]

\* abort(400, f'Exception is: {e}, exc_type: ..., traceback: ...')
Abort400(where) == [ code |-> 400, body |-> "Exception is: " \o where ]

accepted_types == { "Component" }

\* mutant: every type is accepted
AcceptableAlways(rdf_type) == TRUE

\* acceptable = rdf_type in accepted_types
Acceptable(rdf_type) == rdf_type \in accepted_types

\* Sankey_Evaluate and Bar_Evaluate: the same body
Evaluate(req) ==
    IF ~req.json THEN BadRequest
    ELSE IF req.type = Missing THEN InternalServerError
    ELSE IF Acceptable(req.type)
    THEN [ code |-> 200,
           body |-> "The type sent (" \o req.type \o ") is an accepted type" ]
    ELSE [ code |-> 415,
           body |-> "The type sent (" \o req.type \o ") is NOT an accepted type" ]

\* data['top_level'], data['complete_sbol'], data['instanceUrl'], before try
LacksRunKey(req) ==
    \/ req.top_level = Missing
    \/ req.complete_sbol = Missing
    \/ req.instanceUrl = Missing

\* Sankey_Run: input_data, sankey, sankey_graph, retrieve_html
Sankey_Run(req) ==
    IF ~req.json THEN BadRequest
    ELSE IF LacksRunKey(req) THEN InternalServerError
    ELSE IF ~req.loader THEN Abort400("input_data")
    ELSE IF SankeyFaults(req.order_bindings) THEN Abort400("sankey")
    ELSE IF ~req.render THEN Abort400("sankey_graph")
    ELSE [ code |-> 200, body |-> "Sankey.html" ]

\* Bar_Run: input_data, most_used_bar, bar_plot, most_used_by_type_bar,
\* bar_plot, toggle_bars
Bar_Run(req) ==
    IF ~req.json THEN BadRequest
    ELSE IF LacksRunKey(req) THEN InternalServerError
    ELSE IF ~req.loader THEN Abort400("input_data")
    ELSE IF ~HasColumns(req.bar_bindings) THEN Abort400("most_used_bar")
    ELSE IF ~req.render THEN Abort400("bar_plot")
    ELSE [ code |-> 200, body |-> "toggle_bars(Most_Used.html, Most_Used_Type.html)" ]

\* view_functions[endpoint](): what the view function of the endpoint returns
ViewFunction(endpoint, req) ==
    CASE endpoint = "Sankey_Status" ->
             [ code |-> 200, body |-> "The sankey plugin is up and running" ]
      [] endpoint = "Sankey_Evaluate" -> Evaluate(req)
      [] endpoint = "Sankey_Run" -> Sankey_Run(req)
      [] endpoint = "Bar_Status" ->
             [ code |-> 200, body |-> "The bar plugin is up and running" ]
      [] endpoint = "Bar_Evaluate" -> Evaluate(req)
      [] endpoint = "Bar_Run" -> Bar_Run(req)

----------------------------------------------------------------------------
(* Specification of the HTTP boundary: a request is matched against the    *)
(* rules and the view function of the matched rule answers it.             *)

Paths ==
    { "/sankey/status", "/sankey/evaluate", "/sankey/run",
      "/bar/status", "/bar/evaluate", "/bar/run" }

Methods == { "GET", "POST" }

\* the type of an evaluate body
Types == { "Component", "component", "Collection", Missing }

\* the result of the preceding-percent query: nothing, or one part
OrderBindings ==
    { <<>>,
      << OrderRow(25, 40, "https://synbiohub.org/public/igem/BBa_R0040/1",
                  "BBa_R0040", "0000167", "p(tetR)") >> }

\* the result of the most-used queries: nothing, or one part
BarBindings ==
    { <<>>,
      << BarRow(2686, "https://synbiohub.org/public/igem/BBa_R0040/1",
                "BBa_R0040", "0000167", "p(tetR)") >> }

\* the bodies: not JSON, an evaluate body, a run body with or without one of
\* its keys
Bodies ==
    { [ json |-> FALSE, type |-> Missing, top_level |-> Missing,
        complete_sbol |-> Missing, instanceUrl |-> Missing ] }
    \cup { [ json |-> TRUE, type |-> t, top_level |-> Missing,
             complete_sbol |-> Missing, instanceUrl |-> Missing ] : t \in Types }
    \cup { [ json |-> TRUE, type |-> Missing, top_level |-> SankeyPoi.uri,
             complete_sbol |-> CompleteSbol(SankeyPoi, i), instanceUrl |-> i ] :
           i \in Instances }
    \cup { [ json |-> TRUE, type |-> Missing, top_level |-> SankeyPoi.uri,
             complete_sbol |-> CompleteSbol(SankeyPoi, i), instanceUrl |-> Missing ] :
           i \in Instances }

Requests ==
    { [ method |-> m, path |-> p, json |-> b.json, type |-> b.type,
        top_level |-> b.top_level, complete_sbol |-> b.complete_sbol,
        instanceUrl |-> b.instanceUrl, loader |-> l, order_bindings |-> ob,
        bar_bindings |-> bb, render |-> r ] :
      m \in Methods, p \in Paths, b \in Bodies, l \in BOOLEAN,
      ob \in OrderBindings, bb \in BarBindings, r \in BOOLEAN }

InitHttp ==
    /\ phase = "http_request"
    /\ instance = Null
    /\ request \in Requests
    /\ response = Null
    /\ NoBuilder
    /\ NoUriCall
    /\ NoWidths

\* a rule matches path and method: its endpoint is to answer
MatchRule ==
    /\ phase = "http_request"
    /\ AllowedRules(request) # {}
    /\ phase' = "http_matched"
    /\ response' = [ endpoint |-> url_map[FirstRule(AllowedRules(request))].endpoint ]
    /\ UNCHANGED <<instance, request, builderVars, uriVars, widthVars>>

\* rules match the path, none of them takes the method
MethodNotAllowed ==
    /\ phase = "http_request"
    /\ MatchingRules(request) # {}
    /\ AllowedRules(request) = {}
    /\ phase' = "http_done"
    /\ response' = [ endpoint |-> "none", code |-> 405, body |-> "Method Not Allowed" ]
    /\ UNCHANGED <<instance, request, builderVars, uriVars, widthVars>>

\* no rule matches the path
NotFound ==
    /\ phase = "http_request"
    /\ MatchingRules(request) = {}
    /\ phase' = "http_done"
    /\ response' = [ endpoint |-> "none", code |-> 404, body |-> "Not Found" ]
    /\ UNCHANGED <<instance, request, builderVars, uriVars, widthVars>>

\* the view function of the endpoint is called and its answer sent
DispatchRequest ==
    /\ phase = "http_matched"
    /\ phase' = "http_done"
    /\ response' = LET rv == ViewFunction(response.endpoint, request)
                   IN [ endpoint |-> response.endpoint, code |-> rv.code,
                        body |-> rv.body ]
    /\ UNCHANGED <<instance, request, builderVars, uriVars, widthVars>>

NextHttp ==
    \/ MatchRule
    \/ MethodNotAllowed
    \/ NotFound
    \/ DispatchRequest

SpecHttp == InitHttp /\ [][NextHttp]_vars

----------------------------------------------------------------------------
(* binary64 arithmetic on the values the widths take: numbers >= 0 far     *)
(* from overflow and underflow.  A number is mant * 2^exp, mant a natural  *)
(* number held as its digits to the base 2^15, lowest first, without       *)
(* leading zeros.  The table model of sankey above holds the exact value   *)
(* of the width expressions (in hundredths); here the same expressions are *)
(* computed as numpy computes them, every operation rounded to 53 bits,    *)
(* ties to even.                                                           *)

Base == 2 ^ 15

RECURSIVE DigitsOf(_)
DigitsOf(n) == IF n = 0 THEN <<>> ELSE << n % Base >> \o DigitsOf(n \div Base)

\* the digits without their leading zeros
RECURSIVE Trim(_)
Trim(a) ==
    IF a = <<>> THEN <<>>
    ELSE IF a[Len(a)] = 0 THEN Trim(SubSeq(a, 1, Len(a) - 1))
    ELSE a

\* a + b + carry
RECURSIVE AddDigits(_, _, _)
AddDigits(a, b, carry) ==
    IF a = <<>> /\ b = <<>> THEN (IF carry = 0 THEN <<>> ELSE << carry >>)
    ELSE LET t == (IF a = <<>> THEN 0 ELSE Head(a))
                  + (IF b = <<>> THEN 0 ELSE Head(b)) + carry
         IN << t % Base >> \o AddDigits(IF a = <<>> THEN <<>> ELSE Tail(a),
                                        IF b = <<>> THEN <<>> ELSE Tail(b),
                                        t \div Base)

\* a - b - borrow for a >= b + borrow, leading zeros kept
RECURSIVE SubDigitsRaw(_, _, _)
SubDigitsRaw(a, b, borrow) ==
    IF a = <<>> THEN <<>>
    ELSE LET t == Head(a) - (IF b = <<>> THEN 0 ELSE Head(b)) - borrow
         IN << IF t < 0 THEN t + Base ELSE t >>
            \o SubDigitsRaw(Tail(a), IF b = <<>> THEN <<>> ELSE Tail(b),
                            IF t < 0 THEN 1 ELSE 0)

SubDigits(a, b) == Trim(SubDigitsRaw(a, b, 0))

\* a * d + carry for a digit d
RECURSIVE MulDigit(_, _, _)
MulDigit(a, d, carry) ==
    IF a = <<>> THEN (IF carry = 0 THEN <<>> ELSE << carry >>)
    ELSE LET t == Head(a) * d + carry
         IN << t % Base >> \o MulDigit(Tail(a), d, t \div Base)

\* a * b
RECURSIVE MulDigits(_, _)
MulDigits(a, b) ==
    IF a = <<>> \/ b = <<>> THEN <<>>
    ELSE LET rest == MulDigits(a, Tail(b))
         IN Trim(AddDigits(MulDigit(a, Head(b), 0),
                           IF rest = <<>> THEN <<>> ELSE << 0 >> \o rest, 0))

\* quotient and remainder of a by the small number d
RECURSIVE DivDigits(_, _)
DivDigits(a, d) ==
    IF a = <<>> THEN [ q |-> <<>>, r |-> 0 ]
    ELSE LET high == DivDigits(Tail(a), d)
             rem  == Base * high.r + Head(a)
         IN [ q |-> << rem \div d >> \o high.q, r |-> rem % d ]

\* a <= b
RECURSIVE LeqDigits(_, _)
LeqDigits(a, b) ==
    IF Len(a) # Len(b) THEN Len(a) < Len(b)
    ELSE IF a = <<>> THEN TRUE
    ELSE IF a[Len(a)] # b[Len(b)] THEN a[Len(a)] < b[Len(b)]
    ELSE LeqDigits(SubSeq(a, 1, Len(a) - 1), SubSeq(b, 1, Len(b) - 1))

\* the number of bits of a
BitLength(a) ==
    IF a = <<>> THEN 0
    ELSE 15 * (Len(a) - 1)
         + (CHOOSE k \in 1..15 : 2 ^ (k - 1) <= a[Len(a)] /\ a[Len(a)] < 2 ^ k)

\* a * 2^k
ShiftLeft(a, k) ==
    IF a = <<>> THEN <<>>
    ELSE [ i \in 1..(k \div 15) |-> 0 ] \o MulDigit(a, 2 ^ (k % 15), 0)

\* a \div 2^k
ShiftRight(a, k) ==
    Trim(DivDigits(SubSeq(a, (k \div 15) + 1, Len(a)), 2 ^ (k % 15)).q)

\* the binary64 number nearest to (n + a fraction) * 2^exp, the fraction
\* being 0, or in (0, 1) when sticky: ties go to the even mantissa
RoundToBinary64(n, exp, sticky) ==
    IF BitLength(n) <= 53 THEN [ mant |-> n, exp |-> exp ]
    ELSE LET d    == BitLength(n) - 53
             kept == ShiftRight(n, d)
             rest == SubDigits(n, ShiftLeft(kept, d))
             half == ShiftLeft(<< 1 >>, d - 1)
             up   == IF rest = half THEN sticky \/ kept[1] % 2 = 1
                     ELSE LeqDigits(half, rest)
             r    == IF up THEN AddDigits(kept, <<>>, 1) ELSE kept
         IN IF BitLength(r) = 54 THEN [ mant |-> ShiftRight(r, 1), exp |-> exp + d + 1 ]
            ELSE [ mant |-> r, exp |-> exp + d ]

\* an int64 taken into a float64 operation
FromInt(n) == [ mant |-> DigitsOf(n), exp |-> 0 ]

\* pd.to_numeric of the decimal text of p hundredths ("0.25" for 25)
ToNumeric(p) ==
    IF p = 0 THEN FromInt(0)
    ELSE LET qr == DivDigits(ShiftLeft(DigitsOf(p), 60), 100)
         IN RoundToBinary64(Trim(qr.q), -60, qr.r # 0)

\* the mantissas of x and y at their lower exponent
Aligned(x, y) ==
    LET e == Min(x.exp, y.exp)
    IN [ a |-> ShiftLeft(x.mant, x.exp - e), b |-> ShiftLeft(y.mant, y.exp - e),
         exp |-> e ]

\* x + y
FAdd(x, y) ==
    LET al == Aligned(x, y)
    IN RoundToBinary64(AddDigits(al.a, al.b, 0), al.exp, FALSE)

\* x - y for x >= y
FSub(x, y) ==
    LET al == Aligned(x, y)
    IN RoundToBinary64(SubDigits(al.a, al.b), al.exp, FALSE)

\* x * y
FMul(x, y) == RoundToBinary64(MulDigits(x.mant, y.mant), x.exp + y.exp, FALSE)

\* x <= y and x = y, as numbers
FLeq(x, y) == LET al == Aligned(x, y) IN LeqDigits(al.a, al.b)

FEq(x, y) == LET al == Aligned(x, y) IN al.a = al.b

\* mutant: the width of the preceding link is the count
ValuePrecedingWhole(cnt, centfol) == FromInt(cnt)

\* count * (1 - centfol), as value.append computes it
ValuePreceding(cnt, centfol) == FMul(FromInt(cnt), FSub(FromInt(1), centfol))

\* p * m of zip(percent, multiplier)
ValueFollowing(cnt, centfol) == FMul(centfol, FromInt(cnt))

----------------------------------------------------------------------------
(* Specification of the widths of one co-occurrence row.                   *)

\* largest count of a row
MaxCount == 6

\* centfol as the query returns it, in hundredths
Percents == { 0, 1, 5, 20, 25, 30, 50, 75, 100 }

InitWidth ==
    /\ phase = "width_input"
    /\ instance = Null
    /\ multiplier \in 0..MaxCount
    /\ percent \in Percents
    /\ widths = Null
    /\ NoBuilder
    /\ NoUriCall
    /\ NoRequest

\* order_df['centfol'] = order_df['centfol'].apply(pd.to_numeric)
ApplyToNumeric ==
    /\ phase = "width_input"
    /\ phase' = "width_numeric"
    /\ widths' = [ centfol |-> ToNumeric(percent) ]
    /\ UNCHANGED <<instance, multiplier, percent, builderVars, uriVars, httpVars>>

\* value.append(count * (1 - centfol))
AppendValue ==
    /\ phase = "width_numeric"
    /\ phase' = "width_preceding"
    /\ widths' = [ centfol |-> widths.centfol,
                   preceding |-> ValuePreceding(multiplier, widths.centfol) ]
    /\ UNCHANGED <<instance, multiplier, percent, builderVars, uriVars, httpVars>>

\* value += [(p) * m for p, m in zip(percent, multiplier)]
ExtendValue ==
    /\ phase = "width_preceding"
    /\ phase' = "width_done"
    /\ widths' = [ centfol |-> widths.centfol, preceding |-> widths.preceding,
                   following |-> ValueFollowing(multiplier, widths.centfol) ]
    /\ UNCHANGED <<instance, multiplier, percent, builderVars, uriVars, httpVars>>

NextWidth ==
    \/ ApplyToNumeric
    \/ AppendValue
    \/ ExtendValue

SpecWidth == InitWidth /\ [][NextWidth]_vars

----------------------------------------------------------------------------
(* Specification of uri_to_url: it is called with a value, and called again *)
(* with what it returned.                                                  *)

\* longest Series uri_to_url is called with
MaxSeries == 2

\* instance: the instanceUrl of a request
UriInstances ==
    { "https://synbiohub.org/", "https://dev.synbiohub.org/",
      "https://synbiohub.org/dev/" }

\* spoofed_instance: uri[:uri.find('/', 8) + 1] of the uri of a part
SpoofedInstances ==
    { InstanceOf("https://synbiohub.org/public/igem/BBa_E0040/1"),
      InstanceOf("https://dev.synbiohub.org/public/igem/BBa_E0040/1") }

\* the cells: the urls of the docstring, the last of them on the other
\* instance too, and a url that names its instance twice
UrlValues ==
    { "https://shouldnt_change.org/public/igem/BBa_E1010/1",
      "https://synbiohub.org/public/igem/BBa_C0051/1",
      "https://synbiohub.org/public/igem/BBa_C0040/1",
      "https://dev.synbiohub.org/public/igem/BBa_C0040/1",
      "https://synbiohub.org/search/https://synbiohub.org/public/igem/1" }

SeriesUpTo(n) == UNION { [1..k -> UrlValues] : k \in 0..n }

UriArgs ==
    { [data_type |-> "str", value |-> u] : u \in UrlValues }
    \cup { [data_type |-> "Series", value |-> ser] : ser \in SeriesUpTo(MaxSeries) }

InitUri ==
    /\ phase = "uri_input"
    /\ instance \in UriInstances
    /\ spoofed \in SpoofedInstances
    /\ arg \in UriArgs
    /\ ret = Null
    /\ ret2 = Null
    /\ NoBuilder
    /\ NoRequest
    /\ NoWidths

\* new = uri_to_url(data, instance, spoofed_instance)
UriToUrl ==
    /\ phase = "uri_input"
    /\ phase' = "uri_once"
    /\ ret' = uri_to_url(arg, instance, spoofed)
    /\ UNCHANGED <<instance, arg, spoofed, ret2>>
    /\ UNCHANGED <<builderVars, httpVars, widthVars>>

\* uri_to_url(new, instance, spoofed_instance)
UriToUrlAgain ==
    /\ phase = "uri_once"
    /\ phase' = "uri_twice"
    /\ ret2' = uri_to_url(ret, instance, spoofed)
    /\ UNCHANGED <<instance, arg, spoofed, ret>>
    /\ UNCHANGED <<builderVars, httpVars, widthVars>>

NextUri ==
    \/ UriToUrl
    \/ UriToUrlAgain

SpecUri == InitUri /\ [][NextUri]_vars
----------------------------------------------------------------------------
(* Properties of the ranked tables.                                        *)

BarOps == { "most_used_bar", "most_used_by_type_bar" }

\* a ranked table was returned
BarDone == phase = "done" /\ op \in BarOps /\ status = "ok"

\* the rows of the query result that are not the poi, in the order received
Others == SelectSeq(raw, LAMBDA row : row.displayId # poi.display_id)

\* k: the number of candidate rows left once the poi's displayId is removed
K == Cardinality({ i \in 1..Len(raw) : raw[i].displayId # poi.display_id })

PoiReceived == \E i \in 1..Len(raw) : raw[i].displayId = poi.display_id

\* row i of the ranked table is the i-th candidate of the query result
SameCandidate(i) ==
    /\ i <= Len(Others)
    /\ bar_df[i].displayId = Others[i].displayId
    /\ bar_df[i].count = Others[i].count
    /\ bar_df[i].roletog = Others[i].roletog

\* C1: a ranked table that is returned holds the poi exactly once, as its
\* last row, whether or not the query result held the poi.
C1_PoiOnceAndLast ==
    BarDone =>
        /\ Len(bar_df) >= 1
        /\ bar_df[Len(bar_df)].displayId = poi.display_id
        /\ \A i \in 1..(Len(bar_df) - 1) : bar_df[i].displayId # poi.display_id

\* the poi was the first row of the query result, and candidates were kept
C1_Witness ==
    /\ BarDone
    /\ Len(raw) >= 1
    /\ raw[1].displayId = poi.display_id
    /\ Len(bar_df) >= 3

\* C2: with k candidates left after the poi is removed, the ranked table has
\* min(k, 10) + 1 rows.
C2_RowCount == BarDone => Len(bar_df) = Min(K, 10) + 1

\* C3: with no candidate left (k = 0) the builders return the poi alone.
C3_EmptyPoolOneRow ==
    (phase = "done" /\ op \in BarOps /\ K = 0) =>
        /\ status = "ok"
        /\ Len(bar_df) = 1
        /\ bar_df[1].displayId = poi.display_id

\* C4: with at least 11 candidates the ranked table has 11 rows: the first
\* ten candidates in the order received, then the poi; the row of
\* BBa_E0040 / GFP of role 0000316 is coloured rgba(119,157,205,1).
C4_ElevenRows ==
    (phase = "done" /\ op \in BarOps /\ K >= 11) =>
        /\ status = "ok"
        /\ Len(bar_df) = 11
        /\ \A i \in 1..10 : SameCandidate(i)
        /\ bar_df[11].displayId = poi.display_id
        /\ bar_df[11].count = poi.count
        /\ (poi.display_id = "BBa_E0040" /\ poi.role = "0000316") =>
               /\ bar_df[11].title = "GFP"
               /\ bar_df[11].color = "rgba(119,157,205,1)"

\* twelve candidates, none of them the poi, for GFP: the twelfth is cut
C4_Witness ==
    /\ BarDone
    /\ op = "most_used_bar"
    /\ K >= 12
    /\ ~PoiReceived
    /\ poi.display_id = "BBa_E0040"
    /\ Len(bar_df) = 11

DistinctDisplayIds(df) ==
    \A i, j \in 1..Len(df) : i # j => df[i].displayId # df[j].displayId

\* C5 as stated: no two rows of a ranked table share a displayId.
C5_NoSharedDisplayId == BarDone => DistinctDisplayIds(bar_df)

\* C5 as amended: no two rows of a ranked table share a displayId when no
\* two of the candidate rows left after the poi is removed share one; the
\* builders remove the poi's rows and no other row.
C5_NoSharedDisplayIdAmended ==
    (BarDone /\ DistinctDisplayIds(Others)) => DistinctDisplayIds(bar_df)

\* the poi was received among candidates of different displayIds
C5_Witness ==
    /\ BarDone
    /\ DistinctDisplayIds(Others)
    /\ PoiReceived
    /\ Len(bar_df) >= 3

\* C6: the rows before the last row are the first candidates of the query
\* result, in the order received, none skipped.
C6_OrderPreserved ==
    BarDone => \A i \in 1..(Len(bar_df) - 1) : SameCandidate(i)

\* the poi was received first, so every kept candidate moved up one place,
\* and more candidates were received than are kept
C6_Witness ==
    /\ BarDone
    /\ Len(raw) >= 1
    /\ raw[1].displayId = poi.display_id
    /\ K >= 11
    /\ Len(bar_df) = 11

C7_Recognised(roletog) ==
    roletog \in { "http://identifiers.org/so/SO:0000167",
                  "http://identifiers.org/so/SO:0000139",
                  "http://identifiers.org/so/SO:0000316",
                  "http://identifiers.org/so/SO:0000141" }

C7_Colour(roletog, other) ==
    CASE roletog = "http://identifiers.org/so/SO:0000167" -> "rgba(4,187,61,1)"
      [] roletog = "http://identifiers.org/so/SO:0000139" -> "rgba(149,110,219,1)"
      [] roletog = "http://identifiers.org/so/SO:0000316" -> "rgba(119,157,205,1)"
      [] roletog = "http://identifiers.org/so/SO:0000141" -> "rgba(202,58,32,1)"
      [] OTHER -> other

\* C7 as stated: most_used_bar colours every row by the row's own role, a
\* role that is not recognised as rgba(255,128,0,1).
C7_ColourByOwnRole ==
    (BarDone /\ op = "most_used_bar") =>
        \A i \in 1..Len(bar_df) :
            bar_df[i].color = C7_Colour(bar_df[i].roletog, "rgba(255,128,0,1)")

\* C7 as amended: most_used_bar colours every row by the row's own role, a
\* role that is not recognised as the string "rgba(255, 128,0,1)".
C7_ColourByOwnRoleAmended ==
    (BarDone /\ op = "most_used_bar") =>
        \A i \in 1..Len(bar_df) :
            bar_df[i].color = C7_Colour(bar_df[i].roletog, "rgba(255, 128,0,1)")

\* a candidate of a role that is not recognised next to a poi of one that is
C7_Witness ==
    /\ BarDone
    /\ op = "most_used_bar"
    /\ C7_Recognised(bar_df[Len(bar_df)].roletog)
    /\ \E i \in 1..(Len(bar_df) - 1) :
           /\ ~C7_Recognised(bar_df[i].roletog)
           /\ bar_df[i].color = "rgba(255, 128,0,1)"

\* C8: most_used_by_type_bar gives every row the colour of the poi's role
\* (the orange of the other roles when that role is not recognised),
\* whatever the roles of the candidate rows.
C8_ColourOfPoiRole ==
    (BarDone /\ op = "most_used_by_type_bar") =>
        \A i \in 1..Len(bar_df) :
            bar_df[i].color =
                C7_Colour("http://identifiers.org/so/SO:" \o poi.role,
                          "rgba(255, 128,0,1)")

\* a candidate of a recognised role next to a poi of another, recognised role
C8_Witness ==
    /\ BarDone
    /\ op = "most_used_by_type_bar"
    /\ C7_Recognised(bar_df[Len(bar_df)].roletog)
    /\ \E i \in 1..(Len(bar_df) - 1) :
           /\ C7_Recognised(bar_df[i].roletog)
           /\ bar_df[i].roletog # bar_df[Len(bar_df)].roletog

\* the title a row has after the backfill
Backfilled(title, displayId) == IF title = Null THEN displayId ELSE title

SankeyDone == phase = "done" /\ op = "sankey" /\ status = "ok"

\* C9: after a builder has run no row lacks a title: a row received without
\* title has its displayId as title, every other row the title received.
C9_TitleBackfilled ==
    /\ BarDone =>
         /\ \A i \in 1..(Len(bar_df) - 1) :
                /\ bar_df[i].displayId = Others[i].displayId
                /\ bar_df[i].title = Backfilled(Others[i].title, Others[i].displayId)
         /\ bar_df[Len(bar_df)].title = Backfilled(poi.title, poi.display_id)
         /\ \A i \in 1..Len(bar_df) : bar_df[i].title # Null
    /\ SankeyDone =>
         /\ Len(order_df) = Len(raw)
         /\ \A i \in 1..Len(raw) :
                /\ order_df[i].displayId = raw[i].displayId
                /\ order_df[i].title = Backfilled(raw[i].title, raw[i].displayId)
                /\ order_df[i].title # Null

\* a ranked table with a candidate received without title and one with
C9_Witness ==
    /\ BarDone
    /\ \E i \in 1..(Len(bar_df) - 1) :
           Others[i].title = Null /\ bar_df[i].title = bar_df[i].displayId
    /\ \E i \in 1..(Len(bar_df) - 1) :
           Others[i].title # Null /\ bar_df[i].title # bar_df[i].displayId

----------------------------------------------------------------------------
(* Properties of the flow-graph table.                                     *)

\* the number of rows of the query result that fall in a bucket
BucketSize(b) ==
    LET Four == { "http://identifiers.org/so/SO:0000167",
                  "http://identifiers.org/so/SO:0000139",
                  "http://identifiers.org/so/SO:0000316",
                  "http://identifiers.org/so/SO:0000141" }
        role == << "http://identifiers.org/so/SO:0000167",
                   "http://identifiers.org/so/SO:0000139",
                   "http://identifiers.org/so/SO:0000316",
                   "http://identifiers.org/so/SO:0000141" >>
    IN Cardinality({ i \in 1..Len(raw) :
                       IF b = 5 THEN raw[i].roletog \notin Four
                       ELSE raw[i].roletog = role[b] })

\* P: the preceding rows kept over the five buckets
KeptTotal ==
    Min(BucketSize(1), 10) + Min(BucketSize(2), 10) + Min(BucketSize(3), 10)
    + Min(BucketSize(4), 10) + Min(BucketSize(5), 10)

\* the nodes of the table: the rows that have a node label
NodeCount == Cardinality({ i \in 1..Len(skey) : skey[i].NodeLabel # Null })

\* C10: the flow-graph table holds 11 + 2*P nodes, P the preceding rows
\* kept over the five buckets (at most ten a bucket); 2 promoters, 0 RBS,
\* 1 CDS, 0 terminators and 3 others give 23 nodes.
C10_NodeCount ==
    SankeyDone =>
        /\ NodeCount = 11 + 2 * KeptTotal
        /\ \A i \in 1..Len(skey) : skey[i].NodeLabel # Null <=> i <= 11 + 2 * KeptTotal

\* the example of the specification, with 23 nodes
C10_Witness ==
    /\ SankeyDone
    /\ BucketSize(1) = 2 /\ BucketSize(2) = 0 /\ BucketSize(3) = 1
    /\ BucketSize(4) = 0 /\ BucketSize(5) = 3
    /\ NodeCount = 23

\* the links of the table: the rows that have a link colour (source, target,
\* value and link colour of a link are written together)
IsLink(i) == skey[i].LinkColor # Null

LinkCount == Cardinality({ i \in 1..Len(skey) : IsLink(i) })

\* C11 as stated: the flow-graph table holds 3*P links.
C11_LinkCount == SankeyDone => LinkCount = 3 * KeptTotal

\* C11 as amended: the flow-graph table holds 4*P links, one for each kept
\* part in each of the four tiers header -> part, part -> focal,
\* focal -> following part, following part -> footer.
C11_LinkCountAmended ==
    SankeyDone =>
        /\ LinkCount = 4 * KeptTotal
        /\ \A i \in 1..Len(skey) : IsLink(i) <=> i <= 4 * KeptTotal

\* the example of the specification: P = 6 gives 24 links
C11_Witness ==
    /\ SankeyDone
    /\ BucketSize(1) = 2 /\ BucketSize(2) = 0 /\ BucketSize(3) = 1
    /\ BucketSize(4) = 0 /\ BucketSize(5) = 3
    /\ LinkCount = 24

\* index n (0-based) is the index of a node of the table
IsNodeIndex(n) ==
    /\ 0 <= n
    /\ n < NodeCount
    /\ n + 1 <= Len(skey)
    /\ skey[n + 1].NodeLabel # Null

\* C12: the source and the target of every link are indices of nodes of the
\* same table.
C12_LinksHitNodes ==
    SankeyDone =>
        \A i \in 1..Len(skey) :
            IsLink(i) => IsNodeIndex(skey[i].Source) /\ IsNodeIndex(skey[i].Target)

\* fewer links than nodes (one part kept), and a link into the last node
C12_Witness ==
    /\ SankeyDone
    /\ KeptTotal = 1
    /\ LinkCount < NodeCount
    /\ \E i \in 1..Len(skey) : IsLink(i) /\ skey[i].Target = NodeCount - 1

\* the bucket (0..4) of a role
BucketOf(roletog) ==
    CASE roletog = "http://identifiers.org/so/SO:0000167" -> 0
      [] roletog = "http://identifiers.org/so/SO:0000139" -> 1
      [] roletog = "http://identifiers.org/so/SO:0000316" -> 2
      [] roletog = "http://identifiers.org/so/SO:0000141" -> 3
      [] OTHER -> 4

\* the rows of order_df of bucket b, in the order received
InBucket(b) == SelectSeq(order_df, LAMBDA row : BucketOf(row.roletog) = b)

\* the first ten rows of bucket b
KeptOf(b) == SubSeq(InBucket(b), 1, Min(Len(InBucket(b)), 10))

\* the kept rows, bucket by bucket
Kept == KeptOf(0) \o KeptOf(1) \o KeptOf(2) \o KeptOf(3) \o KeptOf(4)

Palette == << "#04BB3D", "#956EDB", "#779DCC", "#CA3A20", "#FF8000" >>

HeaderLabels ==
    << "Preceeding Promoters", "Preceeding RBS", "Preceeding CDS",
       "Preceeding Terminator", "Preceeding Other" >>

FooterLabels ==
    << "Following Promoters", "Following RBS", "Following CDS",
       "Following Terminator", "Following Other" >>

\* node n (0-based) of the table has this label, colour and url
NodeIs(n, label, colour, url) ==
    /\ n + 1 <= Len(skey)
    /\ skey[n + 1].NodeLabel = label
    /\ skey[n + 1].Color = colour
    /\ skey[n + 1].Link = url

\* the url of the focal part on the instance the request came from
FocalUrl == instance \o "public/igem/" \o poi.display_id \o "/1"

\* C13: nodes 0-4 are the five headers, nodes 5..4+P the kept parts bucket
\* by bucket, node 5+P the focal node (#000000, the focal url), nodes
\* 6+P..5+2P the following parts and nodes 6+2P..10+2P the five footers.
C13_NodeOrder ==
    SankeyDone =>
        LET P == KeptTotal IN
        /\ Len(Kept) = P
        /\ \A b \in 0..4 : NodeIs(b, HeaderLabels[b + 1], Palette[b + 1], "NA")
        /\ \A j \in 1..P :
               NodeIs(4 + j, Kept[j].title, Palette[BucketOf(Kept[j].roletog) + 1],
                      Kept[j].deff)
        /\ NodeIs(5 + P, poi.title, "#000000", FocalUrl)
        /\ \A j \in 1..P :
               NodeIs(5 + P + j, Kept[j].title,
                      Palette[BucketOf(Kept[j].roletog) + 1], Kept[j].deff)
        /\ \A b \in 0..4 :
               NodeIs(6 + 2 * P + b, FooterLabels[b + 1], Palette[b + 1], "NA")
        /\ NodeCount = 11 + 2 * P

\* a part of the last bucket was received before a promoter, and a bucket
\* holds more than ten parts
C13_Witness ==
    /\ SankeyDone
    /\ BucketOf(raw[1].roletog) = 4
    /\ BucketSize(1) >= 1
    /\ \E b \in 1..5 : BucketSize(b) > 10

\* the number of kept rows of the buckets before bucket b
KeptBefore(b) ==
    IF b = 0 THEN 0
    ELSE IF b = 1 THEN Len(KeptOf(0))
    ELSE IF b = 2 THEN Len(KeptOf(0)) + Len(KeptOf(1))
    ELSE IF b = 3 THEN Len(KeptOf(0)) + Len(KeptOf(1)) + Len(KeptOf(2))
    ELSE Len(KeptOf(0)) + Len(KeptOf(1)) + Len(KeptOf(2)) + Len(KeptOf(3))

\* C14: every co-occurrence row is in exactly one of the five buckets
\* (promoter, RBS, CDS, terminator, other = any other role), in the order
\* received, and the rows kept for a bucket are its first min(size, 10).
C14_Buckets ==
    SankeyDone =>
        /\ Len(part_array) = 5
        /\ \A b \in 0..4 :
               /\ part_array[b + 1] = InBucket(b)
               /\ \A k \in 1..Len(part_array[b + 1]) :
                      BucketOf(part_array[b + 1][k].roletog) = b
               /\ Cardinality({ i \in 1..KeptTotal : skey[i].Source = b })
                      = Min(Len(part_array[b + 1]), 10)
               /\ \A k \in 1..Min(Len(part_array[b + 1]), 10) :
                      /\ skey[KeptBefore(b) + k].Source = b
                      /\ skey[5 + KeptBefore(b) + k].NodeLabel = part_array[b + 1][k].title
                      /\ skey[5 + KeptBefore(b) + k].Link = part_array[b + 1][k].deff
        /\ Len(part_array[1]) + Len(part_array[2]) + Len(part_array[3])
               + Len(part_array[4]) + Len(part_array[5]) = Len(order_df)

\* a bucket of more than ten rows, a part of an unrecognised role and rows of
\* two buckets received interleaved
C14_Witness ==
    /\ SankeyDone
    /\ \E b \in 1..5 : Len(part_array[b]) > 10
    /\ Len(part_array[5]) >= 1
    /\ Len(raw) >= 3
    /\ BucketOf(raw[1].roletog) = BucketOf(raw[3].roletog)
    /\ BucketOf(raw[1].roletog) # BucketOf(raw[2].roletog)

LinkPalette ==
    << "rgba(4,187,61,0.5)", "rgba(149,110,219,0.5)", "rgba(119,157,205,0.5)",
       "rgba(202,58,32,0.5)", "rgba(255, 128,0,0.5)" >>

\* link i (1-based row of the table) has this source, target, width (in
\* hundredths) and colour
LinkIs(i, src, tgt, width, colour) ==
    /\ i <= Len(skey)
    /\ skey[i].LinkColor = colour
    /\ skey[i].Source = src
    /\ skey[i].Target = tgt
    /\ skey[i].Value = width

\* C15: the j-th kept row, of bucket b, has node 4+j (title, resolved url,
\* bucket colour) and link j: header b -> node 4+j, of width
\* usageCount * (1 - percentPreceding) and the bucket's link colour.
C15_HeaderToPart ==
    SankeyDone =>
        \A j \in 1..Len(Kept) :
            LET b == BucketOf(Kept[j].roletog) IN
            /\ NodeIs(4 + j, Kept[j].title, Palette[b + 1], Kept[j].deff)
            /\ LinkIs(j, b, 4 + j, Kept[j].count * (100 - Kept[j].centfol),
                      LinkPalette[b + 1])
            /\ Kept[j].deff = UriToUrlStr(raw[CHOOSE r \in 1..Len(raw) :
                                   raw[r].displayId = Kept[j].displayId].deff,
                                   instance, InstanceOf(poi.uri))

\* a kept part whose uri is rewritten to the instance, and two parts of
\* different widths
C15_Witness ==
    /\ SankeyDone
    /\ Len(Kept) >= 2
    /\ skey[1].Value # skey[2].Value
    /\ skey[1].Value # Kept[1].count * Kept[1].centfol
    /\ \E r \in 1..Len(raw) : \E j \in 1..Len(Kept) :
           raw[r].displayId = Kept[j].displayId /\ raw[r].deff # Kept[j].deff

\* C16: the j-th preceding node has one mirror link P+j: node 4+j -> focal
\* node 5+P, of the width and colour of link j.
C16_PartToFocal ==
    SankeyDone =>
        LET P == KeptTotal IN
        /\ \A j \in 1..P :
               LinkIs(P + j, 4 + j, 5 + P, skey[j].Value, skey[j].LinkColor)
        /\ \A j \in 1..P :
               Cardinality({ i \in 1..(4 * P) : skey[i].Source = 4 + j }) = 1
        /\ Cardinality({ i \in 1..(4 * P) : skey[i].Target = 5 + P }) = P

C16_Witness ==
    /\ SankeyDone
    /\ KeptTotal >= 2
    /\ skey[KeptTotal + 1].Value # skey[KeptTotal + 2].Value
    /\ skey[KeptTotal + 1].LinkColor # skey[KeptTotal + 2].LinkColor

\* C17: the i-th following node 5+P+i has the label, colour and url of the
\* i-th preceding node 4+i, and link 2P+i: focal node 5+P -> node 5+P+i, of
\* width percentPreceding * usageCount and the bucket's link colour.
C17_FocalToFollowing ==
    SankeyDone =>
        LET P == KeptTotal IN
        \A i \in 1..P :
            /\ NodeIs(5 + P + i, skey[5 + i].NodeLabel, skey[5 + i].Color,
                      skey[5 + i].Link)
            /\ LinkIs(2 * P + i, 5 + P, 5 + P + i, Kept[i].centfol * Kept[i].count,
                      LinkPalette[BucketOf(Kept[i].roletog) + 1])

C17_Witness ==
    /\ SankeyDone
    /\ KeptTotal >= 2
    /\ skey[2 * KeptTotal + 1].Value # skey[1].Value
    /\ skey[2 * KeptTotal + 1].Value > 0
    /\ skey[6 + KeptTotal + 1].NodeLabel # skey[6 + KeptTotal + 2].NodeLabel

\* C18: the i-th following node has link 3P+i: node 5+P+i -> footer
\* 6+2P+b of the part's bucket b, of the width and colour of link 2P+i; the
\* footers are the nodes right after the following nodes.
C18_FollowingToFooter ==
    SankeyDone =>
        LET P == KeptTotal IN
        /\ \A i \in 1..P :
               LET b == BucketOf(Kept[i].roletog) IN
               /\ LinkIs(3 * P + i, 5 + P + i, 6 + 2 * P + b,
                         skey[2 * P + i].Value, skey[2 * P + i].LinkColor)
               /\ skey[i].Source = b
               /\ NodeIs(6 + 2 * P + b, FooterLabels[b + 1], Palette[b + 1], "NA")
        /\ \A i \in 1..P :
               Cardinality({ l \in 1..(4 * P) : skey[l].Source = 5 + P + i }) = 1

C18_Witness ==
    /\ SankeyDone
    /\ KeptTotal >= 2
    /\ skey[3 * KeptTotal + 1].Target # skey[4 * KeptTotal].Target
    /\ skey[4 * KeptTotal].Target = 10 + 2 * KeptTotal

\* C19 as stated: a bucket without rows does not make sankey fault: it has no
\* part nodes and no links, its header and footer are there; with all five
\* buckets empty the table has the 11 header, focal and footer nodes and no
\* links.
C19_EmptyBuckets ==
    (phase = "done" /\ op = "sankey") =>
        /\ status = "ok"
        /\ \A b \in 0..4 :
               Len(InBucket(b)) = 0 =>
                   /\ \A i \in 1..Len(skey) : IsLink(i) =>
                          /\ skey[i].Source # b
                          /\ skey[i].Target # 6 + 2 * KeptTotal + b
                   /\ NodeIs(b, HeaderLabels[b + 1], Palette[b + 1], "NA")
                   /\ NodeIs(6 + 2 * KeptTotal + b, FooterLabels[b + 1],
                             Palette[b + 1], "NA")
        /\ Len(raw) = 0 => NodeCount = 11 /\ LinkCount = 0

\* C20 as stated: in the ranked tables and in the flow-graph table the focal
\* part is the last row or node.
C20_FocalLast ==
    /\ BarDone => bar_df[Len(bar_df)].displayId = poi.display_id
    /\ SankeyDone =>
           NodeIs(NodeCount - 1, poi.title, "#000000", FocalUrl)

\* C20 as amended: in the ranked tables the focal part is the last row; in
\* the flow-graph table it is node 5+P, after the headers and the preceding
\* parts and before the following parts and the footers, and the last node
\* is the footer "Following Other".
C20_FocalPlaceAmended ==
    /\ BarDone =>
           /\ Len(bar_df) >= 1
           /\ bar_df[Len(bar_df)].displayId = poi.display_id
    /\ SankeyDone =>
           /\ NodeIs(5 + KeptTotal, poi.title, "#000000", FocalUrl)
           /\ \A n \in 0..(NodeCount - 1) :
                  skey[n + 1].Color = "#000000" <=> n = 5 + KeptTotal
           /\ NodeIs(NodeCount - 1, "Following Other", "#FF8000", "NA")

\* a flow-graph table with following parts after the focal node
C20_Witness ==
    /\ SankeyDone
    /\ KeptTotal >= 2
    /\ NodeCount - 1 > 5 + KeptTotal
    /\ skey[6 + KeptTotal].Color = "#000000"

----------------------------------------------------------------------------
(* Claims on uri_to_url.                                                   *)

UriOnce == phase \in {"uri_once", "uri_twice"}

UriTwice == phase = "uri_twice"

\* the instance prefix of a url: up to and with the first "/" at or after
\* position 8 (0-based), nothing when there is none
InstancePrefix(u) ==
    LET At == { k \in 9..Len(u) : SubSeq(u, k, k) = "/" }
    IN IF At = {} THEN ""
       ELSE SubSeq(u, 1, CHOOSE k \in At : \A m \in At : k <= m)

StartsWith(u, prefix) ==
    Len(u) >= Len(prefix) /\ SubSeq(u, 1, Len(prefix)) = prefix

\* the cells of a value, a str being one cell
CellsOf(v) == IF v.data_type = "Series" THEN v.value ELSE << v.value >>

\* C21 as stated: uri_to_url of what uri_to_url returned is what it
\* returned, for every value and every pair of instances.
C21_Idempotent == UriTwice => ret2 = ret

\* C22: in a Series, with instance # spoofed_instance, a cell is changed
\* if and only if its instance prefix is the spoofed instance; a changed
\* cell begins with the instance, every other cell is as given, in place.
C22_OnlyMatchingCellsChange ==
    (UriOnce /\ arg.data_type = "Series" /\ instance # spoofed) =>
        /\ ret.data_type = "Series"
        /\ Len(ret.value) = Len(arg.value)
        /\ \A i \in 1..Len(arg.value) :
               /\ ret.value[i] # arg.value[i]
                      <=> InstancePrefix(arg.value[i]) = spoofed
               /\ ret.value[i] # arg.value[i] => StartsWith(ret.value[i], instance)

\* a Series of a cell that is changed and a cell that is not
C22_Witness ==
    /\ UriOnce
    /\ arg.data_type = "Series"
    /\ instance # spoofed
    /\ Len(arg.value) = 2
    /\ ret.value[1] = arg.value[1]
    /\ ret.value[2] # arg.value[2]

\* C23: with instance = spoofed_instance uri_to_url returns the value given,
\* str or Series.
C23_IdentityOnEqualInstances == (UriOnce /\ instance = spoofed) => ret = arg

\* a str and a Series whose instance is the spoofed instance
C23_Witness ==
    /\ UriOnce
    /\ instance = spoofed
    /\ \E i \in 1..Len(CellsOf(arg)) : InstancePrefix(CellsOf(arg)[i]) = spoofed
    /\ \E i \in 1..Len(CellsOf(arg)) : InstancePrefix(CellsOf(arg)[i]) # spoofed

\* C27 as stated: a value that is rewritten is the instance followed by the
\* characters of the input after its instance prefix, also when the spoofed
\* instance occurs again later in the value.
C27_OnlyPrefixReplaced ==
    UriOnce =>
        \A i \in 1..Len(CellsOf(arg)) :
            LET before == CellsOf(arg)[i]
                after  == CellsOf(ret)[i]
            IN after # before =>
                   after = instance
                           \o SubSeq(before, Len(InstancePrefix(before)) + 1, Len(before))

----------------------------------------------------------------------------
(* Claims on the HTTP boundary.                                            *)

HttpDone == phase = "http_done"

RunPaths == { "/bar/run", "/sankey/run" }

\* the request has every key of a run body
IsRunBody ==
    /\ request.json
    /\ request.top_level # Missing
    /\ request.complete_sbol # Missing
    /\ request.instanceUrl # Missing

\* C24 as stated: a POST to /bar/run or /sankey/run ends with 200 and the
\* HTML, or, on a failure, malformed body included, with a 4xx response; no
\* failure gives another error code.
C24_RunEndsIn200Or4xx ==
    (HttpDone /\ request.method = "POST" /\ request.path \in RunPaths) =>
        \/ response.code = 200 /\ IsRunBody /\ request.loader /\ request.render
        \/ response.code \in 400..499

\* C25 as stated: a POST to /sankey/run is answered by the flow-graph
\* pipeline and a POST to /bar/run by the ranked-comparison pipeline.
C25_RoutesReachOwnHandler ==
    (HttpDone /\ request.method = "POST") =>
        /\ request.path = "/sankey/run" => response.endpoint = "Sankey_Run"
        /\ request.path = "/bar/run" => response.endpoint = "Bar_Run"

EvaluatePaths == { "/sankey/evaluate", "/bar/evaluate" }

\* C26: a POST to /sankey/evaluate or /bar/evaluate with a type in its body
\* is answered 200 and accepted if and only if the type is "Component", and
\* 415 and rejected for every other type.
C26_EvaluateByType ==
    (/\ HttpDone
     /\ request.method = "POST"
     /\ request.path \in EvaluatePaths
     /\ request.json
     /\ request.type # Missing) =>
        /\ response.code = 200 <=> request.type = "Component"
        /\ response.code # 200 => response.code = 415
        /\ response.code = 200 =>
               response.body = "The type sent (Component) is an accepted type"
        /\ response.code = 415 =>
               response.body = "The type sent (" \o request.type
                               \o ") is NOT an accepted type"
        /\ response.endpoint =
               IF request.path = "/sankey/evaluate" THEN "Sankey_Evaluate"
               ELSE "Bar_Evaluate"

\* a type that differs from "Component" by its case only is rejected
C26_Witness ==
    /\ HttpDone
    /\ request.method = "POST"
    /\ request.path = "/bar/evaluate"
    /\ request.json
    /\ request.type = "component"
    /\ response.code = 415

----------------------------------------------------------------------------
(* Further claims on the flow-graph table.                                 *)

\* the tier of node n: 0 headers, 1 preceding parts, 2 the focal node,
\* 3 following parts, 4 footers
TierOf(n) ==
    IF n < 5 THEN 0
    ELSE IF n < 5 + KeptTotal THEN 1
    ELSE IF n = 5 + KeptTotal THEN 2
    ELSE IF n < 6 + 2 * KeptTotal THEN 3
    ELSE 4

\* C28: every link goes from a tier to the next one (header -> preceding
\* part -> focal -> following part -> footer), so Source < Target for every
\* link and no link closes a cycle or a self-loop.
C28_LinksGoForward ==
    SankeyDone =>
        \A i \in 1..Len(skey) :
            IsLink(i) =>
                /\ skey[i].Source < skey[i].Target
                /\ TierOf(skey[i].Target) = TierOf(skey[i].Source) + 1

\* parts of two buckets, with links of all four tiers
C28_Witness ==
    /\ SankeyDone
    /\ KeptTotal >= 2
    /\ BucketSize(1) >= 1
    /\ BucketSize(4) >= 1
    /\ \A t \in 0..3 :
           \E i \in 1..Len(skey) : IsLink(i) /\ TierOf(skey[i].Source) = t

----------------------------------------------------------------------------
(* Claim on the widths.                                                    *)

WidthsDone == phase = "width_done"

\* the two widths added without rounding
ExactSum ==
    LET al == Aligned(widths.preceding, widths.following)
    IN [ mant |-> AddDigits(al.a, al.b, 0), exp |-> al.exp ]

\* |x - y|, without rounding
ExactDistance(x, y) ==
    LET al == Aligned(x, y)
    IN [ mant |-> IF LeqDigits(al.a, al.b) THEN SubDigits(al.b, al.a)
                  ELSE SubDigits(al.a, al.b),
         exp |-> al.exp ]

\* C29 as stated: for count >= 0 and centfol in [0, 1] both widths are
\* non-negative and the width of the header -> part link plus the width of
\* the focal -> following link is the count.
C29_WidthsSumToCount ==
    WidthsDone =>
        /\ FLeq(FromInt(0), widths.preceding)
        /\ FLeq(FromInt(0), widths.following)
        /\ FEq(FAdd(widths.preceding, widths.following), FromInt(multiplier))

\* C29 as amended: both widths are non-negative and their sum is the count
\* up to the rounding of binary64: it differs from the count by at most
\* count * 2^-52, and by nothing when centfol is 0, 0.25, 0.5, 0.75 or 1.
C29_WidthsSumToCountRounded ==
    WidthsDone =>
        /\ FLeq(FromInt(0), widths.preceding)
        /\ FLeq(FromInt(0), widths.following)
        /\ FLeq(widths.preceding, FromInt(multiplier))
        /\ FLeq(widths.following, FromInt(multiplier))
        /\ FLeq(ExactDistance(ExactSum, FromInt(multiplier)),
                [ mant |-> DigitsOf(multiplier), exp |-> -52 ])
        /\ percent \in {0, 25, 50, 75, 100} => FEq(ExactSum, FromInt(multiplier))

\* count 3 and centfol 0.2: 2.4000000000000004 + 0.6000000000000001
C29_Witness ==
    /\ WidthsDone
    /\ multiplier = 3
    /\ percent = 20
    /\ ~FEq(ExactSum, FromInt(3))
    /\ ~FEq(FAdd(widths.preceding, widths.following), FromInt(3))

====
